---------------------------- MODULE Spec2Model ----------------------------
(***************************************************************************)
(* Model of src/app.py: the response-parsing and normalisation pipeline of *)
(* GeminiModel.extract_text_from_image, with its retry loop.               *)
(*                                                                         *)
(* A Python str is modelled as a sequence of one-character strings over    *)
(* an ASCII alphabet (digits, letters, the whitespace characters space,    *)
(* tab and newline, and punctuation).  Regular expressions are modelled by *)
(* operators that compute what Python's backtracking matcher computes on   *)
(* such strings, capture groups included.                                  *)
(***************************************************************************)
EXTENDS Naturals, Sequences, FiniteSets

VARIABLES
    pc,          \* position in extract_text_from_image: idle, try, sleep, done, raised
    attempt,     \* the loop variable of for attempt in range(DEFAULT_RETRIES)
    resp,        \* resp.text of the current attempt
    plates,      \* the local plates handed to dedupe_preserve_order (line 97)
    ranFallback, \* whether the branch of line 92 was taken
    result,      \* the value returned to the caller
    log,         \* the events of the current call, in order
    slept,       \* time spent in time.sleep during the current call, in tenths
    cand,        \* argument of normalize_plate   (SpecNormalize)
    norm,        \* its return value              (SpecNormalize)
    items,       \* argument of dedupe_preserve_order (SpecDedupe)
    deduped      \* its return value                  (SpecDedupe)

vars == <<pc, attempt, resp, plates, ranFallback, result, log, slept,
          cand, norm, items, deduped>>

(***************************************************************************)
(* Characters                                                              *)
(***************************************************************************)
Digits == {"0", "1", "2", "3", "4", "5", "6", "7", "8", "9"}

UpperSeq == <<"A", "B", "C", "D", "E", "F", "G", "H", "I", "J", "K", "L", "M",
              "N", "O", "P", "Q", "R", "S", "T", "U", "V", "W", "X", "Y", "Z">>

LowerSeq == <<"a", "b", "c", "d", "e", "f", "g", "h", "i", "j", "k", "l", "m",
              "n", "o", "p", "q", "r", "s", "t", "u", "v", "w", "x", "y", "z">>

UpperLetters == {UpperSeq[i] : i \in 1..26}

LowerLetters == {LowerSeq[i] : i \in 1..26}

\* The characters \s matches and str.strip() removes, within the alphabet.
Whitespace == {" ", "\t", "\n"}

\* str.upper() on one character.
UpperChar(c) ==
    IF c \in LowerLetters
    THEN UpperSeq[CHOOSE i \in 1..26 : LowerSeq[i] = c]
    ELSE c

\* str.upper()
Upper(s) == [i \in 1..Len(s) |-> UpperChar(s[i])]

\* F applied to the value of v: LET x == v IN F(x), with v evaluated once.
Bind(v, F(_)) == CHOOSE y \in {F(x) : x \in {v}} : TRUE

\* s[i:] and s[i:j] with 1-based inclusive bounds; empty when out of range.
Slice(s, i, j) == IF i > j THEN <<>> ELSE SubSeq(s, i, j)

AllIn(s, i, j, class) == \A k \in i..j : s[k] \in class

(***************************************************************************)
(* normalize_plate                                                         *)
(***************************************************************************)
\* re.sub(r"[^A-Z0-9]", "", (raw or "").upper())
StripNonAlnum(raw) ==
    SelectSeq(Upper(raw), LAMBDA c : c \in UpperLetters \cup Digits)

\* Whether (\d{2})([A-Z]{1,2}\d?)(\d{4,6}) matches all of s with L letters
\* and D series digits.
SplitMatches(s, L, D) ==
    /\ Len(s) >= 2 + L + D + 4
    /\ Len(s) <= 2 + L + D + 6
    /\ AllIn(s, 1, 2, Digits)
    /\ AllIn(s, 3, 2 + L, UpperLetters)
    /\ AllIn(s, 3 + L, Len(s), Digits)

NoMatch == [ok |-> FALSE, p |-> <<>>, series |-> <<>>, num |-> <<>>]

\* m.groups() of the match with L letters and D series digits.
PlateGroups(s, L, D) ==
    [ok     |-> TRUE,
     p      |-> SubSeq(s, 1, 2),
     series |-> SubSeq(s, 3, 2 + L + D),
     num    |-> SubSeq(s, 3 + L + D, Len(s))]

\* re.fullmatch(r"(\d{2})([A-Z]{1,2}\d?)(\d{4,6})", s): the greedy
\* quantifiers {1,2} and ? are tried from their longest match down.
PlateFullMatch(s) ==
    IF SplitMatches(s, 2, 1) THEN PlateGroups(s, 2, 1)
    ELSE IF SplitMatches(s, 2, 0) THEN PlateGroups(s, 2, 0)
    ELSE IF SplitMatches(s, 1, 1) THEN PlateGroups(s, 1, 1)
    ELSE IF SplitMatches(s, 1, 0) THEN PlateGroups(s, 1, 0)
    ELSE NoMatch

\* Lines 32-39: the serial with its dot.
FormatNum(num) ==
    IF Len(num) = 4 THEN Slice(num, 1, 2) \o <<".">> \o Slice(num, 3, Len(num))
    ELSE IF Len(num) = 5 THEN Slice(num, 1, 2) \o <<".">> \o Slice(num, 4, Len(num))
    ELSE IF Len(num) = 6 THEN Slice(num, 1, 3) \o <<".">> \o Slice(num, 4, Len(num))
    ELSE num

normalize_plate(raw) ==
    Bind(StripNonAlnum(raw), LAMBDA s :
    Bind(PlateFullMatch(s), LAMBDA m :
        IF ~m.ok THEN s
        ELSE m.p \o <<"-">> \o m.series \o <<" ">> \o FormatNum(m.num)))

(***************************************************************************)
(* The grammar validator of lines 86 and 95                                *)
(***************************************************************************)
\* re.fullmatch(r"\d{2}-[A-Z]{1,2}\d?\s+\d{2,3}\.\d{2,3}", p) is not None
IsValidPlate(p) ==
    \E L \in 1..2, D \in 0..1, W \in 1..Len(p), a \in 2..3, b \in 2..3 :
        LET ws == 4 + L + D      \* first whitespace character
            d1 == ws + W         \* first digit of the serial
        IN  /\ Len(p) = d1 + a + b
            /\ AllIn(p, 1, 2, Digits)
            /\ p[3] = "-"
            /\ AllIn(p, 4, 3 + L, UpperLetters)
            /\ AllIn(p, 4 + L, 3 + L + D, Digits)
            /\ AllIn(p, ws, d1 - 1, Whitespace)
            /\ AllIn(p, d1, d1 + a - 1, Digits)
            /\ p[d1 + a] = "."
            /\ AllIn(p, d1 + a + 1, Len(p), Digits)

(***************************************************************************)
(* dedupe_preserve_order                                                   *)
(***************************************************************************)
RECURSIVE DedupeLoop(_, _, _)
\* The loop of lines 44-47; seen holds exactly the elements of out.
DedupeLoop(xs, i, out) ==
    IF i > Len(xs) THEN out
    ELSE Bind(IF xs[i] # <<>> /\ ~(\E k \in 1..Len(out) : out[k] = xs[i])
              THEN Append(out, xs[i]) ELSE out,
              LAMBDA o : DedupeLoop(xs, i + 1, o))

\* Mutant of dedupe_preserve_order: the test "x not in seen" is left out.
dedupe_without_seen(xs) == SelectSeq(xs, LAMBDA x : x # <<>>)

dedupe_preserve_order(xs) == Bind(xs, LAMBDA ys : DedupeLoop(ys, 1, <<>>))

(***************************************************************************)
(* Lines 71-78: trimming and code-fence removal                            *)
(***************************************************************************)
MinOf(S) == Bind(S, LAMBDA T : CHOOSE x \in T : \A y \in T : x <= y)

MaxOf(S) == Bind(S, LAMBDA T : CHOOSE x \in T : \A y \in T : x >= y)

\* The index after the longest run of characters of class that starts at
\* index i of s (i itself when there is none).
RunEnd(s, i, class) ==
    IF i > Len(s) THEN i
    ELSE CHOOSE j \in i..(Len(s) + 1) :
            /\ AllIn(s, i, j - 1, class)
            /\ (j = Len(s) + 1 \/ s[j] \notin class)

\* str.strip()
strip(s) ==
    Bind({i \in 1..Len(s) : s[i] \notin Whitespace}, LAMBDA keep :
        IF keep = {} THEN <<>> ELSE SubSeq(s, MinOf(keep), MaxOf(keep)))

\* The grave accent, written ~ here: a TLA+ string cannot hold the character.
Backtick == "~"

Fence == <<Backtick, Backtick, Backtick>>

StartsWith(s, pre) == Len(s) >= Len(pre) /\ SubSeq(s, 1, Len(pre)) = pre

EndsWith(s, suf) ==
    Len(s) >= Len(suf) /\ SubSeq(s, Len(s) - Len(suf) + 1, Len(s)) = suf

\* Mutant of StripOpenFence: the pattern is "^~~~" alone, so the language
\* tag and the newline stay.
StripOpenFenceOnly(txt) ==
    IF StartsWith(txt, Fence) THEN Slice(txt, 4, Len(txt)) ELSE txt

\* re.sub(r"^~~~[a-zA-Z]*\n?", "", txt): ^ matches at the start only.
StripOpenFence(txt) ==
    IF ~StartsWith(txt, Fence) THEN txt
    ELSE Bind(RunEnd(txt, 4, UpperLetters \cup LowerLetters), LAMBDA j :
            Slice(txt, IF j <= Len(txt) /\ txt[j] = "\n" THEN j + 1 ELSE j,
                  Len(txt)))

\* re.sub(r"\n?~~~$", "", txt): $ matches at the end and before a final
\* newline; the leftmost match takes the newline before the fence.
StripCloseFence(txt) ==
    Bind(IF txt # <<>> /\ txt[Len(txt)] = "\n" THEN <<"\n">> ELSE <<>>, LAMBDA tail :
    Bind(Slice(txt, 1, Len(txt) - Len(tail)), LAMBDA body :
    Bind(Len(body), LAMBDA m :
        IF EndsWith(body, Fence)
        THEN Slice(body, 1, IF m >= 4 /\ body[m - 3] = "\n" THEN m - 4 ELSE m - 3)
                 \o tail
        ELSE txt)))

\* Lines 71, 77, 78.
CleanText(raw) ==
    Bind(strip(raw), LAMBDA t71 :
    Bind(StripOpenFence(t71), LAMBDA t77 :
    Bind(StripCloseFence(t77), LAMBDA t78 : strip(t78))))

(***************************************************************************)
(* json.loads (line 83).  The alphabet has no backslash, brace or colon,   *)
(* so a value is a string without escapes, a number without exponent, a    *)
(* literal or an array of values.  Each parsed value carries what line 85  *)
(* needs: whether it is a list, and str(x) of it and of its elements.      *)
(***************************************************************************)
JsonFail == [ok |-> FALSE, end |-> 0, isList |-> FALSE,
             str |-> <<>>, repr |-> <<>>, elems |-> <<>>]

JsonAtom(e, str, repr) == [ok |-> TRUE, end |-> e, isList |-> FALSE,
                           str |-> str, repr |-> repr, elems |-> <<>>]

\* The literals of the scanner, each with Python's str() of its value.
JsonLiterals ==
    << [text |-> <<"n", "u", "l", "l">>,      str |-> <<"N", "o", "n", "e">>],
       [text |-> <<"t", "r", "u", "e">>,      str |-> <<"T", "r", "u", "e">>],
       [text |-> <<"f", "a", "l", "s", "e">>, str |-> <<"F", "a", "l", "s", "e">>],
       [text |-> <<"N", "a", "N">>,           str |-> <<"n", "a", "n">>],
       [text |-> <<"I", "n", "f", "i", "n", "i", "t", "y">>,
        str  |-> <<"i", "n", "f">>],
       [text |-> <<"-", "I", "n", "f", "i", "n", "i", "t", "y">>,
        str  |-> <<"-", "i", "n", "f">>] >>

HasAt(s, i, w) == i + Len(w) - 1 <= Len(s) /\ SubSeq(s, i, i + Len(w) - 1) = w

\* repr() of a str without backslash or double quote.
StrRepr(v) ==
    IF \E k \in 1..Len(v) : v[k] = "'"
    THEN <<"\"">> \o v \o <<"\"">>
    ELSE <<"'">> \o v \o <<"'">>

RECURSIVE JoinReprs(_, _)
JoinReprs(reprs, i) ==
    IF i > Len(reprs) THEN <<>>
    ELSE (IF i > 1 THEN <<",", " ">> ELSE <<>>) \o reprs[i] \o JoinReprs(reprs, i + 1)

\* str() and repr() of a list.
ListRepr(reprs) == <<"[">> \o JoinReprs(reprs, 1) \o <<"]">>

\* A string: from the quote at i to the next quote; a control character
\* inside is an error.
JsonString(s, i) ==
    Bind(RunEnd(s, i + 1, Digits \cup UpperLetters \cup LowerLetters
                            \cup {" ", "-", ".", ",", "[", "]", "'", Backtick}),
         LAMBDA j :
            IF j <= Len(s) /\ s[j] = "\""
            THEN Bind(Slice(s, i + 1, j - 1), LAMBDA v : JsonAtom(j + 1, v, StrRepr(v)))
            ELSE JsonFail)

\* A number: (-?(?:0|[1-9]\d*))(\.\d+)?  str() of an int drops the sign of
\* -0; str() of a float drops the fraction's trailing zeros but one digit.
JsonNumber(s, i) ==
    Bind(IF s[i] = "-" THEN i + 1 ELSE i, LAMBDA d :
    Bind(IF d <= Len(s) /\ s[d] = "0" THEN d + 1 ELSE RunEnd(s, d, Digits), LAMBDA ie :
    Bind(IF ie + 1 <= Len(s) /\ s[ie] = "." /\ s[ie + 1] \in Digits
         THEN RunEnd(s, ie + 1, Digits) ELSE ie, LAMBDA fe :
    Bind(Slice(s, d, ie - 1), LAMBDA ip :
    Bind(Slice(s, ie + 1, fe - 1), LAMBDA fr :
    Bind(IF fe > ie
         THEN (IF d > i THEN <<"-">> ELSE <<>>) \o ip \o <<".">>
                  \o Slice(fr, 1, MaxOf({k \in 1..Len(fr) : fr[k] # "0"} \cup {1}))
         ELSE IF d > i /\ ip # <<"0">> THEN <<"-">> \o ip ELSE ip, LAMBDA text :
        IF d > Len(s) \/ s[d] \notin Digits THEN JsonFail
        ELSE JsonAtom(fe, text, text)))))))

JsonLiteral(s, i) ==
    Bind({k \in 1..Len(JsonLiterals) : HasAt(s, i, JsonLiterals[k].text)}, LAMBDA hits :
        IF hits = {} THEN JsonFail
        ELSE Bind(JsonLiterals[MinOf(hits)], LAMBDA l :
                JsonAtom(i + Len(l.text), l.str, l.str)))

RECURSIVE JsonValue(_, _)
RECURSIVE JsonElems(_, _, _)
\* The elements of an array whose next value starts at i; acc holds str()
\* and repr() of the elements before it.
JsonElems(s, i, acc) ==
    Bind(JsonValue(s, i), LAMBDA v :
        IF ~v.ok THEN JsonFail
        ELSE Bind(RunEnd(s, v.end, Whitespace), LAMBDA j :
             Bind([strs  |-> Append(acc.strs, v.str),
                   reprs |-> Append(acc.reprs, v.repr)], LAMBDA a :
                IF j > Len(s) THEN JsonFail
                ELSE IF s[j] = "]"
                THEN Bind(ListRepr(a.reprs), LAMBDA r :
                        [ok |-> TRUE, end |-> j + 1, isList |-> TRUE,
                         str |-> r, repr |-> r, elems |-> a.strs])
                ELSE IF s[j] = ","
                THEN Bind(RunEnd(s, j + 1, Whitespace), LAMBDA n : JsonElems(s, n, a))
                ELSE JsonFail)))

\* The value that starts at index i (scan_once).
JsonValue(s, i) ==
    IF i > Len(s) THEN JsonFail
    ELSE IF s[i] = "\"" THEN JsonString(s, i)
    ELSE IF s[i] = "["
    THEN Bind(RunEnd(s, i + 1, Whitespace), LAMBDA j :
            IF j <= Len(s) /\ s[j] = "]"
            THEN [ok |-> TRUE, end |-> j + 1, isList |-> TRUE,
                  str |-> <<"[", "]">>, repr |-> <<"[", "]">>, elems |-> <<>>]
            ELSE JsonElems(s, j, [strs |-> <<>>, reprs |-> <<>>]))
    ELSE IF s[i] \in Digits \/ (s[i] = "-" /\ i < Len(s) /\ s[i + 1] \in Digits)
    THEN JsonNumber(s, i)
    ELSE JsonLiteral(s, i)

\* json.loads(txt): one value, whitespace around it, nothing after it;
\* ok = FALSE is json.JSONDecodeError.
json_loads(txt) ==
    Bind(RunEnd(txt, 1, Whitespace), LAMBDA i :
    Bind(JsonValue(txt, i), LAMBDA v :
        IF v.ok /\ RunEnd(txt, v.end, Whitespace) > Len(txt) THEN v ELSE JsonFail))

(***************************************************************************)
(* FALLBACK_REGEX (lines 16-18) and its use on line 94                     *)
(***************************************************************************)
\* What \s*[- ]?\s* can cross: whitespace with at most one hyphen.  The
\* group after it starts with a letter or a digit, so a match crosses the
\* whole run of these characters.
SepChars == Whitespace \cup {"-"}

SepMatches(U, i, j) == Cardinality({k \in i..(j - 1) : U[k] = "-"}) <= 1

NoHit == [ok |-> FALSE, end |-> 0, groups |-> <<>>]

\* FALLBACK_REGEX at index i of U with L series letters and D series digits.
FallbackMatchWith(U, i, L, D) ==
    IF ~(i + 1 <= Len(U) /\ AllIn(U, i, i + 1, Digits)) THEN NoHit
    ELSE Bind(RunEnd(U, i + 2, SepChars), LAMBDA j :
         Bind(j + L + D, LAMBDA k0 :
            IF ~(/\ SepMatches(U, i + 2, j)
                 /\ k0 - 1 <= Len(U)
                 /\ AllIn(U, j, j + L - 1, UpperLetters)
                 /\ AllIn(U, j + L, k0 - 1, Digits)) THEN NoHit
            ELSE Bind(RunEnd(U, k0, SepChars), LAMBDA k :
                 Bind(RunEnd(U, k, Digits), LAMBDA e :
                 Bind(IF e - k > 6 THEN 6 ELSE e - k, LAMBDA n :
                    IF ~(SepMatches(U, k0, k) /\ n >= 4) THEN NoHit
                    ELSE [ok     |-> TRUE,
                          end    |-> k + n,
                          groups |-> SubSeq(U, i, i + 1) \o SubSeq(U, j, k0 - 1)
                                         \o SubSeq(U, k, k + n - 1)])))))

\* FALLBACK_REGEX.match(U, i): the greedy quantifiers {1,2} and ? are tried
\* from their longest match down; groups is "".join(m.groups()).
FALLBACK_REGEX(U, i) ==
    IF ~(i + 1 <= Len(U) /\ AllIn(U, i, i + 1, Digits)) THEN NoHit
    ELSE Bind(FallbackMatchWith(U, i, 2, 1), LAMBDA m21 : IF m21.ok THEN m21 ELSE
         Bind(FallbackMatchWith(U, i, 2, 0), LAMBDA m20 : IF m20.ok THEN m20 ELSE
         Bind(FallbackMatchWith(U, i, 1, 1), LAMBDA m11 : IF m11.ok THEN m11 ELSE
              FallbackMatchWith(U, i, 1, 0))))

RECURSIVE FindIter(_, _, _)
\* FALLBACK_REGEX.finditer(U) from index i on: the scan moves to the first
\* index where the pattern matches, takes the match, and goes on after it.
FindIter(U, i, acc) ==
    Bind({j \in i..Len(U) : FALLBACK_REGEX(U, j).ok}, LAMBDA starts :
        IF starts = {} THEN acc
        ELSE Bind(FALLBACK_REGEX(U, MinOf(starts)), LAMBDA m :
             Bind(Append(acc, m.groups), LAMBDA found :
                FindIter(U, m.end, found))))

NormalizeAll(xs) == [i \in 1..Len(xs) |-> normalize_plate(xs[i])]

\* Mutant of StructuredPlates: line 86, the validator, is left out.
StructuredPlatesUnfiltered(txt) ==
    Bind(json_loads(txt), LAMBDA data :
        IF data.ok /\ data.isList THEN NormalizeAll(data.elems) ELSE <<>>)

\* Lines 83-86; <<>> on JSONDecodeError or a value that is no list.
StructuredPlates(txt) ==
    Bind(json_loads(txt), LAMBDA data :
        IF data.ok /\ data.isList
        THEN SelectSeq(NormalizeAll(data.elems), IsValidPlate)
        ELSE <<>>)

\* Lines 93-95.
FallbackPlates(txt) ==
    Bind(Upper(txt), LAMBDA U :
    Bind(FindIter(U, 1, <<>>), LAMBDA found :
        SelectSeq(NormalizeAll(found), IsValidPlate)))

\* Mutant of SelectPlates: the test of line 92 is left out, the regex scan
\* always runs and adds its plates.
SelectPlatesAlways(structured, txt) ==
    [plates |-> structured \o FallbackPlates(txt), ranFallback |-> TRUE]

\* Line 92: the fallback runs when the structured step left plates empty.
SelectPlates(structured, txt) ==
    IF structured = <<>>
    THEN [plates |-> FallbackPlates(txt), ranFallback |-> TRUE]
    ELSE [plates |-> structured, ranFallback |-> FALSE]

\* Lines 71-97 for one response text.
ParseResponse(raw) ==
    Bind(CleanText(raw), LAMBDA txt :
    Bind(StructuredPlates(txt), LAMBDA structured :
    Bind(SelectPlates(structured, txt), LAMBDA sel :
        [plates      |-> sel.plates,
         ranFallback |-> sel.ranFallback,
         result      |-> dedupe_preserve_order(sel.plates)])))

(***************************************************************************)
(* The responses of the external model that the check draws from: up to    *)
(* MaxElems tokens, listed as a JSON array, as a Python-style list, as an  *)
(* unquoted list or as prose, bare or inside a code fence or padding.      *)
(***************************************************************************)
MaxElems == 2

\* What a response lists: plates as the model may spell them, and text that
\* is no plate.
Tokens ==
    { <<"3", "7", "M", "1", "5", "6", "3", "4", "1">>,
      <<"2", "9", "-", "A", "1", " ", "1", "2", "3", ".", "4", "5", "6">>,
      <<"3", "0", "K", "1", "2", "3", "4", " ", "3", "0", "k", "5", "6",
        "7", "8">>,
      <<"2", "9", "1", "2", "3", "4", "5", "6", "7", "8">>,
      <<"n", "u", "l", "l">> }

TokenSeqs == UNION {[1..n -> Tokens] : n \in 0..MaxElems}

RECURSIVE Join(_, _, _)
\* sep.join(xs[i:])
Join(xs, sep, i) ==
    IF i > Len(xs) THEN <<>>
    ELSE (IF i > 1 THEN sep ELSE <<>>) \o xs[i] \o Join(xs, sep, i + 1)

Quoted(xs, q) == [i \in 1..Len(xs) |-> q \o xs[i] \o q]

Bodies(ts) ==
    { <<"[">> \o Join(Quoted(ts, <<"\"">>), <<",", " ">>, 1) \o <<"]">>,
      <<"[">> \o Join(Quoted(ts, <<"'">>), <<",">>, 1) \o <<"]">>,
      <<"[">> \o Join(ts, <<",", " ">>, 1) \o <<"]">>,
      Join(ts, <<" ", "a", "n", "d", " ">>, 1) }

\* What surrounds the body: nothing, a fence with or without a language
\* tag, whitespace, a stray fence with whitespace outside it.
Wrappers ==
    { [pre |-> <<>>,            post |-> <<>>],
      [pre |-> <<Backtick, Backtick, Backtick, "j", "s", "o", "n", "\n">>,
       post |-> <<"\n", Backtick, Backtick, Backtick>>],
      [pre |-> <<Backtick, Backtick, Backtick>>,         post |-> <<Backtick, Backtick, Backtick,
                                           "\n">>],
      [pre |-> <<" ", "\n">>,         post |-> <<"\t">>],
      [pre |-> <<>>,            post |-> <<"\n", Backtick, Backtick,
                                           Backtick, " ">>],
      [pre |-> <<" ", Backtick, Backtick, Backtick, "p", "y", "\n">>,
       post |-> <<>>] }

\* The prose response of the specification's fallback example.
FallbackExample ==
    <<"I", " ", "s", "e", "e", " ", "p", "l", "a", "t", "e", " ", "3", "7",
      "-", "M", "1", " ", "5", "6", "3", "4", "1", " ", "a", "n", "d", " ",
      "2", "9", "A", "Y", "0", "0", "5", "4", "0", " ", "i", "n", " ", "t",
      "h", "e", " ", "i", "m", "a", "g", "e">>

GarbageExample == <<"n", "o", " ", "p", "l", "a", "t", "e", "s", " ", "f",
                    "o", "u", "n", "d">>

Responses ==
    {w.pre \o b \o w.post : w \in Wrappers, b \in UNION {Bodies(ts) : ts \in TokenSeqs}}
        \cup {FallbackExample, GarbageExample}

(***************************************************************************)
(* extract_text_from_image (lines 57-105)                                  *)
(***************************************************************************)
DEFAULT_RETRIES == 2

\* time.sleep(1.5), in tenths of a second.
BackoffTenths == 15

\* What an attempt can raise: Image.open (line 69), generate_content
\* (line 70), resp.text of a blocked response (line 71), json.loads on a
\* failure that is no JSONDecodeError (line 83).
Raisable == {"UnidentifiedImageError", "GoogleAPIError", "ValueError",
             "RecursionError"}

\* The subclasses of Exception among the names used here.
ExceptionClasses == Raisable \cup {"JSONDecodeError"}

\* Mutant of Catches: except json.JSONDecodeError.
CatchesJsonOnly(e) == e = "JSONDecodeError"

\* Line 98: except Exception.
Catches(e) == e \in ExceptionClasses

\* Mutant of ShouldSleep: the test of line 101 is left out.
SleepAlways(a) == TRUE

\* Line 101.
ShouldSleep(a) == a < DEFAULT_RETRIES - 1

Idle == /\ resp = <<>> /\ plates = <<>> /\ ranFallback = FALSE
        /\ result = <<>> /\ log = <<>> /\ slept = 0 /\ attempt = 0

NoNormalize == cand = <<>> /\ norm = <<>>

NoDedupe == items = <<>> /\ deduped = <<>>

Init == pc = "idle" /\ Idle /\ NoNormalize /\ NoDedupe

\* main() calls extract_text_from_image (line 143); the loop starts.
Call ==
    /\ pc \in {"idle", "done", "raised"}
    /\ pc' = "try"
    /\ attempt' = 0
    /\ resp' = <<>> /\ plates' = <<>> /\ ranFallback' = FALSE
    /\ result' = <<>> /\ log' = <<>> /\ slept' = 0
    /\ UNCHANGED <<cand, norm, items, deduped>>

\* An attempt that runs lines 69-97 to the return.
AttemptReturns ==
    /\ pc = "try"
    /\ \E r \in Responses :
          \E parsed \in {ParseResponse(r)} :
              /\ resp' = r
              /\ plates' = parsed.plates
              /\ ranFallback' = parsed.ranFallback
              /\ result' = parsed.result
    /\ log' = Append(log, "ok")
    /\ pc' = "done"
    /\ UNCHANGED <<attempt, slept, cand, norm, items, deduped>>

\* An attempt that raises e, and the handler of lines 98-104.
AttemptRaises ==
    /\ pc = "try"
    /\ \E e \in Raisable :
          pc' = IF ~Catches(e) THEN "raised"
                ELSE IF ShouldSleep(attempt) THEN "sleep"
                ELSE "done"
    /\ log' = Append(log, "raise")
    /\ result' = <<>>
    /\ UNCHANGED <<attempt, resp, plates, ranFallback, slept,
                   cand, norm, items, deduped>>

\* time.sleep(1.5) of line 102, then the next turn of the loop; line 105
\* when the loop is over.
Backoff ==
    /\ pc = "sleep"
    /\ slept' = slept + BackoffTenths
    /\ log' = Append(log, "sleep")
    /\ attempt' = attempt + 1
    /\ pc' = IF attempt + 1 < DEFAULT_RETRIES THEN "try" ELSE "done"
    /\ UNCHANGED <<resp, plates, ranFallback, result, cand, norm, items, deduped>>

Next == Call \/ AttemptReturns \/ AttemptRaises \/ Backoff

Spec == Init /\ [][Next]_vars

(***************************************************************************)
(* normalize_plate on its own: the candidates it is given and its result   *)
(***************************************************************************)
Provinces == {<<"2", "9">>, <<"3", "7">>}

LetterSeries == {<<"A">>, <<"A", "Y">>, <<"a", "y">>}

SeriesSet == LetterSeries \cup {<<"M", "1">>}

Serials == {<<"1", "2", "3">>, <<"1", "2", "3", "4">>, <<"1", "2", "3", "4", "5">>, <<"0", "0", "5", "4", "0">>, <<"1", "2", "3", "4",
                                                       "5", "6">>, <<"1", "2",
                                                                   "3", "4",
                                                                   "5", "6",
                                                                   "7">>}

Styles == {"compact", "dashed", "dot2", "dot3", "noisy"}

\* One candidate: province p, series s and serial n as a response may
\* spell them.
Spell(p, s, n, style) ==
    CASE style = "compact" -> p \o s \o n
      [] style = "dashed"  -> p \o <<"-">> \o s \o <<" ">> \o n
      [] style = "dot2"    -> p \o <<"-">> \o s \o <<" ">>
                                \o Slice(n, 1, 2) \o <<".">> \o Slice(n, 3, Len(n))
      [] style = "dot3"    -> p \o <<"-">> \o s \o <<" ">>
                                \o Slice(n, 1, 3) \o <<".">> \o Slice(n, 4, Len(n))
      [] style = "noisy"   -> <<"[", "'">> \o p \o <<" ">> \o s \o <<"_">> \o n \o <<"'", "]">>

Candidates ==
    {Spell(p, s, n, style) : p \in Provinces, s \in SeriesSet, n \in Serials,
                             style \in Styles}

InitNormalize ==
    /\ pc = "n_call" /\ cand \in Candidates /\ norm = <<>>
    /\ Idle /\ NoDedupe

\* normalize_plate(cand) runs to its return.
Normalize ==
    /\ pc = "n_call"
    /\ norm' = normalize_plate(cand)
    /\ pc' = "n_done"
    /\ UNCHANGED <<attempt, resp, plates, ranFallback, result, log, slept,
                   cand, items, deduped>>

NextNormalize == Normalize

SpecNormalize == InitNormalize /\ [][NextNormalize]_vars

(***************************************************************************)
(* dedupe_preserve_order on its own: line 97 for any list of candidates    *)
(***************************************************************************)
MaxItems == 4

Streamable == {<<>>, <<"3", "7", "-", "M", "1", " ", "5", "6", ".", "4",
                       "1">>, <<"2", "9", "-", "A", "1", " ", "1",
                                        "2", "3", ".", "4", "5", "6">>, <<"3", "0", "-",
                                                           "K", " ", "1", "2",
                                                           ".", "3", "4">>}

Streams == UNION {[1..n -> Streamable] : n \in 0..MaxItems}

InitDedupe ==
    /\ pc = "d_call" /\ items \in Streams /\ deduped = <<>>
    /\ Idle /\ NoNormalize

\* return dedupe_preserve_order(plates)
Dedupe ==
    /\ pc = "d_call"
    /\ deduped' = dedupe_preserve_order(items)
    /\ pc' = "d_done"
    /\ UNCHANGED <<attempt, resp, plates, ranFallback, result, log, slept,
                   cand, norm, items>>

NextDedupe == Dedupe

SpecDedupe == InitDedupe /\ [][NextDedupe]_vars

(***************************************************************************)
(* Properties                                                              *)
(***************************************************************************)
\* The call returned from line 97.
Returned == pc = "done" /\ log # <<>> /\ log[Len(log)] = "ok"

Events(kind) == {k \in 1..Len(log) : log[k] = kind}

Elements(xs) == {xs[k] : k \in 1..Len(xs)}

FirstAt(stream, x) == MinOf({k \in 1..Len(stream) : stream[k] = x})

\* out lists every non-empty element of stream once, by first occurrence.
IsDedupOf(out, stream) ==
    /\ \A i, j \in 1..Len(out) : i < j => out[i] # out[j]
    /\ \A i \in 1..Len(out) : out[i] # <<>>
    /\ Elements(out) = Elements(stream) \ {<<>>}
    /\ \A i, j \in 1..Len(out) :
          i < j => FirstAt(stream, out[i]) < FirstAt(stream, out[j])

\* The plate grammar as the claims state it: 2 digits, hyphen, 1-2 uppercase
\* letters and an optional digit, spaces, 2-3 digits, dot, 2-3 digits.
PlateGrammar(p) ==
    LET sp   == {i \in 1..Len(p) : p[i] \in Whitespace}
        dots == {i \in 1..Len(p) : p[i] = "."}
    IN  /\ sp # {} /\ Cardinality(dots) = 1
        /\ LET s1     == MinOf(sp)
               s2     == MaxOf(sp)
               d      == MinOf(dots)
               series == Slice(p, 4, s1 - 1)
               left   == Slice(p, s2 + 1, d - 1)
               right  == Slice(p, d + 1, Len(p))
               nl     == Cardinality({i \in 1..Len(series) : series[i] \in UpperLetters})
           IN  /\ s1 > 4 /\ sp = s1..s2
               /\ p[1] \in Digits /\ p[2] \in Digits /\ p[3] = "-"
               /\ nl \in 1..2 /\ Len(series) \in nl..(nl + 1)
               /\ AllIn(series, 1, nl, UpperLetters)
               /\ AllIn(series, nl + 1, Len(series), Digits)
               /\ Len(left) \in 2..3 /\ AllIn(left, 1, Len(left), Digits)
               /\ Len(right) \in 2..3 /\ AllIn(right, 1, Len(right), Digits)

\* C1: every string of the list extract_text_from_image returns matches the
\* plate grammar, whichever path (JSON array or fallback regex) produced it.
C1_ReturnedPlatesMatchGrammar ==
    pc = "done" => \A i \in 1..Len(result) : PlateGrammar(result[i])

\* C1 witness: a returned JSON-path list from which the validator dropped
\* an element of the array.
C1_Witness ==
    /\ Returned /\ ~ranFallback /\ result # <<>>
    /\ Len(json_loads(CleanText(resp)).elems) > Len(plates)

\* C2: the returned list holds each distinct non-empty candidate exactly
\* once, ordered by first occurrence in the candidate stream.
C2_DedupedInFirstOccurrenceOrder ==
    pc = "d_done" => IsDedupOf(deduped, items)

\* C2 witness: a stream with an empty string and a repeat of its first
\* plate after a second plate; the two plates are returned.
C2_Witness ==
    /\ pc = "d_done" /\ Len(items) = 4
    /\ items[2] = <<>> /\ items[4] = items[1]
    /\ deduped = <<items[1], items[3]>> /\ Len(deduped) = 2

\* C3: when the cleaned response is a JSON array with a valid normalised
\* element, the fallback scan does not run and the returned list is the
\* deduplicated valid normalised elements in array order; the fallback runs
\* exactly when the structured step produced no valid plate.
C3_StructuredPrecedence ==
    Returned =>
        \A data \in {json_loads(CleanText(resp))} :
            \A valid \in {IF data.ok /\ data.isList
                           THEN SelectSeq(NormalizeAll(data.elems), PlateGrammar)
                           ELSE <<>>} :
                /\ ranFallback <=> (valid = <<>>)
                /\ valid # <<>> => IsDedupOf(result, valid)

\* C3 witness: a JSON array with a valid element whose text also holds
\* plates only the regex scan would find.
C3_Witness ==
    /\ Returned /\ ~ranFallback /\ result # <<>>
    /\ ~(Elements(FallbackPlates(CleanText(resp))) \subseteq Elements(result))

\* C4: no exception leaves extract_text_from_image; when every attempt
\* raised, the call returns the empty list after the last attempt.
C4_FailuresAbsorbed ==
    /\ pc # "raised"
    /\ (pc = "done" /\ Events("ok") = {}) =>
          result = <<>> /\ Cardinality(Events("raise")) = DEFAULT_RETRIES

\* C4 witness: every attempt raised and the call returned [].
C4_Witness ==
    /\ pc = "done" /\ result = <<>>
    /\ Cardinality(Events("raise")) = DEFAULT_RETRIES

\* C5: at most DEFAULT_RETRIES attempts; a later attempt follows a raise and
\* exactly one 1.5 delay; a completed attempt ends the call; no delay after
\* a success or after the last failed attempt.
C5_RetryOrdering ==
    /\ Cardinality(Events("ok") \cup Events("raise")) <= DEFAULT_RETRIES
    /\ \A k \in 1..Len(log) :
          /\ log[k] = "sleep" => (k > 1 /\ log[k - 1] = "raise")
          /\ (log[k] # "sleep" /\ k > 1) =>
                (log[k - 1] = "sleep" /\ k > 2 /\ log[k - 2] = "raise")
          /\ log[k] = "ok" => (k = Len(log) /\ pc = "done")
    /\ slept = BackoffTenths * Cardinality(Events("sleep"))
    /\ pc = "done" => (log # <<>> /\ log[Len(log)] # "sleep")
    /\ pc = "sleep" => Cardinality(Events("raise")) < DEFAULT_RETRIES

\* C5 witness: a raise, one delay, then the attempt that returns.
C5_Witness ==
    /\ pc = "done" /\ log = <<"raise", "sleep", "ok">>
    /\ slept = BackoffTenths /\ result # <<>>

\* C6: for the prose response of the example the returned list is
\* ["37-M1 56.341", "29-AY 005.40"].
C6_FallbackExample ==
    (Returned /\ resp = FallbackExample) =>
        result = << <<"3", "7", "-", "M", "1", " ", "5", "6", ".", "3", "4",
                      "1">>,
                    <<"2", "9", "-", "A", "Y", " ", "0", "0", "5", ".", "4",
                      "0">> >>

\* C7: normalize_plate returns every string the validator accepts unchanged,
\* unless the serial it matched has exactly 5 digits.
C7_CanonicalFixedPoint ==
    (/\ pc = "n_done"
     /\ IsValidPlate(cand)
     /\ Len(PlateFullMatch(StripNonAlnum(cand)).num) # 5) => norm = cand

\* C8: a province, a series of 1-2 letters and a 6-digit serial, however
\* spelled, normalise to province-series, space, 3 digits, dot, 3 digits.
C8_SixDigitSerial ==
    pc = "n_done" =>
        \A p \in Provinces, s \in LetterSeries, style \in Styles :
            \A n \in {x \in Serials : Len(x) = 6} :
                cand = Spell(p, s, n, style) =>
                    norm = p \o <<"-">> \o Upper(s) \o <<" ">>
                             \o SubSeq(n, 1, 3) \o <<".">> \o SubSeq(n, 4, 6)

FenceTags == {<<>>, <<"j", "s", "o", "n">>}

\* T inside an opening fence with tag and newline, and a newline and a
\* closing fence.
Fenced(tag, T) == Fence \o tag \o <<"\n">> \o T \o <<"\n">> \o Fence

\* C9 as stated: a response that neither begins nor ends with a fence gives
\* the same list bare and fenced.
C9_FenceTransparency ==
    (Returned /\ ~StartsWith(resp, Fence) /\ ~EndsWith(resp, Fence)) =>
        \A tag \in FenceTags : ParseResponse(Fenced(tag, resp)).result = result

\* C9 amended: a response whose whitespace-trimmed text neither begins nor
\* ends with a fence gives the same list bare and fenced.
C9_FenceTransparencyTrimmed ==
    (Returned /\ ~StartsWith(strip(resp), Fence) /\ ~EndsWith(strip(resp), Fence)) =>
        \A tag \in FenceTags : ParseResponse(Fenced(tag, resp)).result = result

\* C9 witness: a bare JSON array with a plate the regex scan cannot see,
\* returned alike bare and fenced.
C9_Witness ==
    /\ Returned /\ ~ranFallback /\ result # <<>>
    /\ ~StartsWith(strip(resp), Fence) /\ ~EndsWith(strip(resp), Fence)
    /\ FallbackPlates(CleanText(resp)) = <<>>
    /\ ParseResponse(Fenced(<<"j", "s", "o", "n">>, resp)).result = result

\* C10: the serial of every returned plate has shape DDD.DD, DD.DDD or
\* DDD.DDD, never DD.DD.
C10_SerialShape ==
    pc = "done" =>
        \A i \in 1..Len(result) :
            LET p  == result[i]
                d  == MinOf({k \in 1..Len(p) : p[k] = "."})
                s  == MaxOf({k \in 1..Len(p) : p[k] \in Whitespace})
            IN  <<d - s - 1, Len(p) - d>> \in {<<3, 2>>, <<2, 3>>, <<3, 3>>}

=============================================================================
